---- MODULE Spec2Model ----
(***************************************************************************)
(* DS1307_PicoLib: the I2C0 controller set-up (I2C_Initialize) and the     *)
(* retry-bounded register transactions (I2C_Register_Read,                 *)
(* I2C_Register_Write) of src/DS1307/I2C_Driver.c.                         *)
(*                                                                         *)
(* A uint32_t is a pair <<hi, lo>> of 16-bit halves, so that the wrap at   *)
(* 2^32 of the C arithmetic is computed exactly.                           *)
(***************************************************************************)
EXTENDS Integers, Sequences, FiniteSets, TLC

VARIABLES pc,          \* position of the single thread of control
          func,        \* the function that is running
          regAddr,     \* registerAddress argument of the running call
          regVal,      \* registerValue argument of I2C_Register_Write
          errorCount,  \* local errorCount of the running call
          reg_value,   \* local reg_value of I2C_Register_Read
          retval,      \* value returned by the last call
          retSite,     \* source line of the return statement that was taken
          busLog,      \* every i2c_write_blocking / i2c_read_blocking / sleep_us call, in order
          baudrate,    \* argument of I2C_Initialize
          clockFreq,   \* local clockFreq of I2C_Initialize
          period_SCL,  \* local period_SCL of I2C_Initialize
          lcnt,        \* local lcnt of I2C_Initialize
          hcnt,        \* local hcnt of I2C_Initialize
          I2C0_Regs,   \* the registers of the I2C0 block that I2C_Initialize writes
          regLog,      \* the register writes of the running call, in order
          ResetCtrl_Regs, \* the I2C0 bit of the reset and reset_done registers
          printedReg,  \* the value Enable_DS1307_Oscillator hands to printf
          timeDate,    \* the TimeDate that is being programmed
          regWriteLog, \* the register writes requested while programming the time
          osc_errorCount, \* local errorCount of Enable_DS1307_Oscillator
          bcdOriginal, \* the value given to the BCD codec
          bcdPacked,   \* its packed BCD form
          bcdDecoded   \* the packed form converted back

vars == <<pc, func, regAddr, regVal, errorCount, reg_value, retval, retSite, busLog,
          baudrate, clockFreq, period_SCL, lcnt, hcnt, I2C0_Regs,
          regLog, ResetCtrl_Regs, printedReg, timeDate, regWriteLog,
          osc_errorCount, bcdOriginal, bcdPacked, bcdDecoded>>

----------------------------------------------------------------------------
(* uint32_t arithmetic on 16-bit halves *)

W16 == 65536

\* the uint32_t of a natural below 2^31
FromNat(n) == <<n \div W16, n % W16>>

\* the natural of a uint32_t below 2^31
ToNat(a) == a[1] * W16 + a[2]

Zero32 == <<0, 0>>

Lt32(a, b) == a[1] < b[1] \/ (a[1] = b[1] /\ a[2] < b[2])

Le32(a, b) == a = b \/ Lt32(a, b)

\* a + b in uint32_t (wraps at 2^32)
Add32(a, b) ==
    LET lo == a[2] + b[2]
        hi == a[1] + b[1] + (lo \div W16)
    IN  <<hi % W16, lo % W16>>

\* a - b in uint32_t (wraps at 2^32)
Sub32(a, b) ==
    LET lo == a[2] - b[2]
        borrow == IF lo < 0 THEN 1 ELSE 0
        hi == a[1] - b[1] - borrow
    IN  <<(hi + W16) % W16, (lo + W16) % W16>>

\* a * k in uint32_t for a small k (wraps at 2^32)
MulSmall32(a, k) ==
    LET lo == a[2] * k
        hi == a[1] * k + (lo \div W16)
    IN  <<hi % W16, lo % W16>>

\* a >> 1 as a natural (always below 2^31)
Half32(a) == a[1] * 32768 + (a[2] \div 2)

\* n / d and n % d in uint32_t, d # 0.  A divisor of 2^31 or more goes into n
\* at most once; otherwise n = 2 * (n >> 1) + (n & 1) is divided in two steps
\* that stay below 2^31.
DivMod32(n, d) ==
    IF d[1] >= 32768
    THEN IF Lt32(n, d) THEN [q |-> Zero32, r |-> n]
                       ELSE [q |-> FromNat(1), r |-> Sub32(n, d)]
    ELSE LET dn == ToNat(d)
             b  == n[2] % 2
             q1 == Half32(n) \div dn
             r1 == Half32(n) % dn
             more == r1 >= dn - r1 - b
         IN  [q |-> Add32(Add32(FromNat(q1), FromNat(q1)), FromNat(IF more THEN 1 ELSE 0)),
              r |-> FromNat(IF more THEN r1 - (dn - r1 - b) ELSE 2 * r1 + b)]

Div32(n, d) == DivMod32(n, d).q

Mod32(n, d) == DivMod32(n, d).r

----------------------------------------------------------------------------
(* constants of I2C_Driver.h and of the two register routines *)

DS1307_I2C_ADDRESS == 104

STATUS_SUCCESS == 0

MPU6050_REGISTER_I2C_READ_FAIL == 255

CLK_SYS_88NS_IN_CYCLES == 11

maxRetries == 5

retryDelayUs == 5

\* "no value": retval before a call returns, reg_value before a byte is received
NoValue == -1

----------------------------------------------------------------------------
(* inputs *)

\* register addresses of the DS1307 the caller passes
RegAddrs == {0, 7, 63}

\* register values the caller passes to I2C_Register_Write
RegValues == {0, 2, 255}

\* bytes the device delivers in an acknowledged receive (a byte is 0 .. 255)
DeviceBytes == {0, 1, 69, 127, 128, 254, 255}

\* values clock_get_hz(clk_sys) returns
ClockFreqs == { FromNat(125000000), FromNat(133000000), FromNat(48000000),
                FromNat(12000000), FromNat(1000000), FromNat(37), FromNat(38),
                <<21845, 21845>>, <<21845, 21846>>, <<32768, 0>>,
                <<65535, 65535>>, Zero32 }

\* baud rates the caller passes to I2C_Initialize (never 0: it is the divisor)
Baudrates == { FromNat(400000), FromNat(100000), FromNat(1000000),
               FromNat(12500000), FromNat(3400000), FromNat(3), FromNat(2),
               FromNat(1), <<65535, 65535>> }

----------------------------------------------------------------------------
(* the pieces of the register routines *)

\* variant: only a transfer of two bytes or more counts as done
TransferFailedShort(ret) == ret < 2

\* the loop condition !i2c_write_blocking(...) / !i2c_read_blocking(...)
TransferFailed(ret) == ret = 0

\* variant: if(errorCount >= maxRetries)
RetriesExhaustedEarly(ec) == ec >= maxRetries

\* variant: if(errorCount > maxRetries + 1)
RetriesExhaustedLate(ec) == ec > maxRetries + 1

\* if(errorCount > maxRetries), evaluated after errorCount++
RetriesExhausted(ec) == ec > maxRetries

\* variant: the assignment errorCount = 0 is missing
KeepErrorCount(ec) == ec

\* errorCount = 0 between the two phases of I2C_Register_Read
ResetErrorCount(ec) == 0

\* variant: the address is transmitted with nostop = false
ReadAddressTransmitWithStop(address, ret) ==
    [op |-> "tx", dev |-> DS1307_I2C_ADDRESS, data |-> <<address>>, nostop |-> FALSE, ret |-> ret]

\* i2c_write_blocking(i2c_default, DS1307_I2C_ADDRESS, &reg_address, 1, true)
ReadAddressTransmit(address, ret) ==
    [op |-> "tx", dev |-> DS1307_I2C_ADDRESS, data |-> <<address>>, nostop |-> TRUE, ret |-> ret]

\* i2c_read_blocking(i2c_default, DS1307_I2C_ADDRESS, &reg_value, 1, false)
ReadValueReceive(ret, bytes) ==
    [op |-> "rx", dev |-> DS1307_I2C_ADDRESS, len |-> 1, nostop |-> FALSE, ret |-> ret, data |-> bytes]

\* variant: outputData_Reset[] = {registerValue, registerAddress}
WriteTransmitSwapped(address, value, ret) ==
    [op |-> "tx", dev |-> DS1307_I2C_ADDRESS, data |-> <<value, address>>, nostop |-> FALSE, ret |-> ret]

\* i2c_write_blocking(i2c_default, DS1307_I2C_ADDRESS, outputData_Reset, 2, false)
WriteTransmit(address, value, ret) ==
    [op |-> "tx", dev |-> DS1307_I2C_ADDRESS, data |-> <<address, value>>, nostop |-> FALSE, ret |-> ret]

\* sleep_us(retryDelayUs)
Sleep == [op |-> "sleep", us |-> retryDelayUs]

\* the value I2C_Register_Read hands back once the receive was acknowledged
ReadResult(value) == value

----------------------------------------------------------------------------
(* the timing arithmetic of I2C_Initialize *)

\* period_SCL = (clockFreq + (baudrate/2))/baudrate
ComputePeriod(clk, baud) == Div32(Add32(clk, Div32(baud, FromNat(2))), baud)

\* variant: lcnt = (period_SCL * 2/5)
ComputeLcntTwoFifths(period) == Div32(MulSmall32(period, 2), FromNat(5))

\* lcnt = (period_SCL * 3/5)
ComputeLcnt(period) == Div32(MulSmall32(period, 3), FromNat(5))

\* variant: hcnt = lcnt - period_SCL
ComputeHcntSwapped(period, l) == Sub32(l, period)

\* hcnt = period_SCL - lcnt
ComputeHcnt(period, l) == Sub32(period, l)

\* I2C0_Regs->fs_spklen = CLK_SYS_88NS_IN_CYCLES
ComputeSpklen(clk) == FromNat(CLK_SYS_88NS_IN_CYCLES)

\* the option bits or-ed into I2C0_Regs->con
ConValue == {"MASTER_MODE", "IC_SLAVE_DISABLE", "SPEED_FAST", "ADDR_7BITS", "IC_RESTART_EN"}

----------------------------------------------------------------------------

\* no TimeDate is being programmed
NoTimeDate == <<>>

Init ==
    /\ pc = "idle"
    /\ func = "none"
    /\ regAddr = 0
    /\ regVal = 0
    /\ errorCount = 0
    /\ reg_value = NoValue
    /\ retval = NoValue
    /\ retSite = 0
    /\ busLog = <<>>
    /\ baudrate = Zero32
    /\ clockFreq = Zero32
    /\ period_SCL = Zero32
    /\ lcnt = Zero32
    /\ hcnt = Zero32
    /\ \E en \in {0, 1} :
          I2C0_Regs = [enable |-> en, con |-> {}, fs_scl_hcnt |-> Zero32,
                       fs_scl_lcnt |-> Zero32, fs_spklen |-> Zero32]
    /\ regLog = <<>>
    /\ ResetCtrl_Regs = [reset |-> 0, reset_done |-> 1]
    /\ printedReg = NoValue
    /\ timeDate = NoTimeDate
    /\ regWriteLog = <<>>
    /\ osc_errorCount = 0
    /\ bcdOriginal = NoValue
    /\ bcdPacked = NoValue
    /\ bcdDecoded = NoValue

initVars == <<baudrate, clockFreq, period_SCL, lcnt, hcnt, I2C0_Regs>>

hwVars == <<regLog, ResetCtrl_Regs>>

devVars == <<printedReg, timeDate, regWriteLog, osc_errorCount,
             bcdOriginal, bcdPacked, bcdDecoded>>

xferVars == <<regAddr, regVal, errorCount, reg_value, retval, retSite, busLog>>

(* ---- I2C_Register_Read ---- *)

Call_I2C_Register_Read ==
    /\ pc = "idle"
    /\ UNCHANGED <<hwVars, devVars>>
    /\ func' = "I2C_Register_Read"
    /\ \E a \in RegAddrs : regAddr' = a
    /\ pc' = "read_tx"
    /\ errorCount' = 0
    /\ reg_value' = NoValue
    /\ retval' = NoValue
    /\ retSite' = 0
    /\ busLog' = <<>>
    /\ UNCHANGED <<regVal, initVars>>

\* one evaluation of the first while condition, and the loop body when it fails
I2C_Register_Read_Transmit ==
    /\ pc = "read_tx"
    /\ UNCHANGED <<hwVars, devVars>>
    /\ UNCHANGED func
    /\ \E ret \in {0, 1} :
         IF TransferFailed(ret)
         THEN /\ busLog' = busLog \o <<ReadAddressTransmit(regAddr, ret), Sleep>>
              /\ errorCount' = errorCount + 1
              /\ IF RetriesExhausted(errorCount + 1)
                 THEN /\ retval' = MPU6050_REGISTER_I2C_READ_FAIL
                      /\ retSite' = 123
                      /\ pc' = "done"
                 ELSE /\ UNCHANGED <<retval, retSite>>
                      /\ pc' = "read_tx"
         ELSE /\ busLog' = Append(busLog, ReadAddressTransmit(regAddr, ret))
              /\ errorCount' = ResetErrorCount(errorCount)
              /\ pc' = "read_rx"
              /\ UNCHANGED <<retval, retSite>>
    /\ UNCHANGED <<regAddr, regVal, reg_value, initVars>>

\* one evaluation of the second while condition, and the loop body when it fails
I2C_Register_Read_Receive ==
    /\ pc = "read_rx"
    /\ UNCHANGED <<hwVars, devVars>>
    /\ UNCHANGED func
    /\ \/ \E ret \in {0} :
            /\ TransferFailed(ret)
            /\ busLog' = busLog \o <<ReadValueReceive(ret, <<>>), Sleep>>
            /\ errorCount' = errorCount + 1
            /\ IF RetriesExhausted(errorCount + 1)
               THEN /\ retval' = MPU6050_REGISTER_I2C_READ_FAIL
                    /\ retSite' = 136
                    /\ pc' = "done"
               ELSE /\ UNCHANGED <<retval, retSite>>
                    /\ pc' = "read_rx"
            /\ UNCHANGED reg_value
       \/ \E ret \in {1}, b \in DeviceBytes :
            /\ ~TransferFailed(ret)
            /\ busLog' = Append(busLog, ReadValueReceive(ret, <<b>>))
            /\ reg_value' = b
            /\ retval' = ReadResult(b)
            /\ retSite' = 139
            /\ pc' = "done"
            /\ UNCHANGED errorCount
    /\ UNCHANGED <<regAddr, regVal, initVars>>

(* ---- I2C_Register_Write ---- *)

\* where control goes when I2C_Register_Write returns: back into the
\* time-programming sequence when that sequence made the call
AfterWrite(f) == IF f = "programDateTime" THEN "pdt_ret" ELSE "done"

Call_I2C_Register_Write ==
    /\ pc = "idle"
    /\ UNCHANGED <<hwVars, devVars>>
    /\ func' = "I2C_Register_Write"
    /\ \E a \in RegAddrs : regAddr' = a
    /\ \E v \in RegValues : regVal' = v
    /\ pc' = "write_tx"
    /\ errorCount' = 0
    /\ reg_value' = NoValue
    /\ retval' = NoValue
    /\ retSite' = 0
    /\ busLog' = <<>>
    /\ UNCHANGED initVars

\* one evaluation of the while condition, and the loop body when it fails
I2C_Register_Write_Transmit ==
    /\ pc = "write_tx"
    /\ UNCHANGED <<hwVars, devVars>>
    /\ UNCHANGED func
    /\ \E ret \in {0, 2} :
         IF TransferFailed(ret)
         THEN /\ busLog' = busLog \o <<WriteTransmit(regAddr, regVal, ret), Sleep>>
              /\ errorCount' = errorCount + 1
              /\ IF RetriesExhausted(errorCount + 1)
                 THEN /\ retval' = MPU6050_REGISTER_I2C_READ_FAIL
                      /\ retSite' = 159
                      /\ pc' = AfterWrite(func)
                 ELSE /\ UNCHANGED <<retval, retSite>>
                      /\ pc' = "write_tx"
         ELSE /\ busLog' = Append(busLog, WriteTransmit(regAddr, regVal, ret))
              /\ retval' = STATUS_SUCCESS
              /\ retSite' = 163
              /\ pc' = AfterWrite(func)
              /\ UNCHANGED errorCount
    /\ UNCHANGED <<regAddr, regVal, reg_value, initVars>>

(* ---- I2C_Initialize ---- *)

\* a write to the register reg of the I2C0 block, made while enable = en
RegWrite(reg, en) == [reg |-> reg, en |-> en]

Call_I2C_Initialize ==
    /\ pc = "idle"
    /\ UNCHANGED <<hwVars, devVars>>
    /\ func' = "I2C_Initialize"
    /\ \E b \in Baudrates : baudrate' = b
    /\ pc' = "init_disable"
    /\ clockFreq' = Zero32
    /\ period_SCL' = Zero32
    /\ lcnt' = Zero32
    /\ hcnt' = Zero32
    /\ retval' = NoValue
    /\ retSite' = 0
    /\ busLog' = <<>>
    /\ UNCHANGED <<regAddr, regVal, errorCount, reg_value, I2C0_Regs>>

\* variant: the first write leaves the controller enabled
I2C_Initialize_DisableWritesOne ==
    /\ pc = "init_disable"
    /\ regLog' = Append(regLog, RegWrite("enable", I2C0_Regs.enable))
    /\ UNCHANGED <<ResetCtrl_Regs, devVars>>
    /\ UNCHANGED func
    /\ I2C0_Regs' = [I2C0_Regs EXCEPT !.enable = 1]
    /\ pc' = "init_con"
    /\ UNCHANGED <<xferVars, baudrate, clockFreq, period_SCL, lcnt, hcnt>>

\* I2C0_Regs->enable = 0
I2C_Initialize_Disable ==
    /\ pc = "init_disable"
    /\ regLog' = Append(regLog, RegWrite("enable", I2C0_Regs.enable))
    /\ UNCHANGED <<ResetCtrl_Regs, devVars>>
    /\ UNCHANGED func
    /\ I2C0_Regs' = [I2C0_Regs EXCEPT !.enable = 0]
    /\ pc' = "init_con"
    /\ UNCHANGED <<xferVars, baudrate, clockFreq, period_SCL, lcnt, hcnt>>

\* I2C0_Regs->con = ...
I2C_Initialize_Con ==
    /\ pc = "init_con"
    /\ regLog' = Append(regLog, RegWrite("con", I2C0_Regs.enable))
    /\ UNCHANGED <<ResetCtrl_Regs, devVars>>
    /\ UNCHANGED func
    /\ I2C0_Regs' = [I2C0_Regs EXCEPT !.con = ConValue]
    /\ pc' = "init_timing"
    /\ UNCHANGED <<xferVars, baudrate, clockFreq, period_SCL, lcnt, hcnt>>

\* clockFreq = clock_get_hz(clk_sys); period_SCL, lcnt and hcnt
I2C_Initialize_Timing ==
    /\ pc = "init_timing"
    /\ UNCHANGED <<hwVars, devVars>>
    /\ UNCHANGED func
    /\ \E clk \in ClockFreqs :
         /\ clockFreq' = clk
         /\ period_SCL' = ComputePeriod(clk, baudrate)
         /\ lcnt' = ComputeLcnt(ComputePeriod(clk, baudrate))
         /\ hcnt' = ComputeHcnt(ComputePeriod(clk, baudrate),
                                ComputeLcnt(ComputePeriod(clk, baudrate)))
    /\ pc' = "init_hcnt"
    /\ UNCHANGED <<xferVars, baudrate, I2C0_Regs>>

\* I2C0_Regs->fs_scl_hcnt = hcnt
I2C_Initialize_Hcnt ==
    /\ pc = "init_hcnt"
    /\ regLog' = Append(regLog, RegWrite("fs_scl_hcnt", I2C0_Regs.enable))
    /\ UNCHANGED <<ResetCtrl_Regs, devVars>>
    /\ UNCHANGED func
    /\ I2C0_Regs' = [I2C0_Regs EXCEPT !.fs_scl_hcnt = hcnt]
    /\ pc' = "init_lcnt"
    /\ UNCHANGED <<xferVars, baudrate, clockFreq, period_SCL, lcnt, hcnt>>

\* I2C0_Regs->fs_scl_lcnt = lcnt
I2C_Initialize_Lcnt ==
    /\ pc = "init_lcnt"
    /\ regLog' = Append(regLog, RegWrite("fs_scl_lcnt", I2C0_Regs.enable))
    /\ UNCHANGED <<ResetCtrl_Regs, devVars>>
    /\ UNCHANGED func
    /\ I2C0_Regs' = [I2C0_Regs EXCEPT !.fs_scl_lcnt = lcnt]
    /\ pc' = "init_spklen"
    /\ UNCHANGED <<xferVars, baudrate, clockFreq, period_SCL, lcnt, hcnt>>

\* I2C0_Regs->fs_spklen = CLK_SYS_88NS_IN_CYCLES
I2C_Initialize_Spklen ==
    /\ pc = "init_spklen"
    /\ regLog' = Append(regLog, RegWrite("fs_spklen", I2C0_Regs.enable))
    /\ UNCHANGED <<ResetCtrl_Regs, devVars>>
    /\ UNCHANGED func
    /\ I2C0_Regs' = [I2C0_Regs EXCEPT !.fs_spklen = ComputeSpklen(clockFreq)]
    /\ pc' = "init_enable"
    /\ UNCHANGED <<xferVars, baudrate, clockFreq, period_SCL, lcnt, hcnt>>

\* I2C0_Regs->enable = 1, and the return
I2C_Initialize_Enable ==
    /\ pc = "init_enable"
    /\ regLog' = Append(regLog, RegWrite("enable", I2C0_Regs.enable))
    /\ UNCHANGED <<ResetCtrl_Regs, devVars>>
    /\ UNCHANGED func
    /\ I2C0_Regs' = [I2C0_Regs EXCEPT !.enable = 1]
    /\ pc' = "init_done"
    /\ retSite' = 101
    /\ UNCHANGED <<regAddr, regVal, errorCount, reg_value, retval, busLog,
                   baudrate, clockFreq, period_SCL, lcnt, hcnt>>

(* ---- Reset_I2C0 ---- *)

\* the registers of the I2C0 block while it is held in reset
I2C0_InReset == [enable |-> 0, con |-> {}, fs_scl_hcnt |-> Zero32,
                 fs_scl_lcnt |-> Zero32, fs_spklen |-> Zero32]

\* a hw_set_bits / hw_clear_bits of the I2C0 bit of ResetCtrl_Regs->reset
ResetWrite(how) == [reg |-> "reset", bits |-> how]

\* variant: the wait loop is never entered
ResetPendingNever(regs) == FALSE

\* ~ResetCtrl_Regs->reset_done & RESETS_RESET_I2C0_BITS
ResetPending(regs) == regs.reset_done = 0

Call_Reset_I2C0 ==
    /\ pc = "idle"
    /\ func' = "Reset_I2C0"
    /\ pc' = "reset_set"
    /\ UNCHANGED <<xferVars, initVars, hwVars, devVars>>

\* hw_set_bits(&ResetCtrl_Regs->reset, RESETS_RESET_I2C0_BITS): the block is in reset
Reset_I2C0_Assert ==
    /\ pc = "reset_set"
    /\ ResetCtrl_Regs' = [reset |-> 1, reset_done |-> 0]
    /\ I2C0_Regs' = I2C0_InReset
    /\ regLog' = Append(regLog, ResetWrite("set"))
    /\ pc' = "reset_clear"
    /\ UNCHANGED <<func, xferVars, baudrate, clockFreq, period_SCL, lcnt, hcnt, devVars>>

\* hw_clear_bits(&ResetCtrl_Regs->reset, RESETS_RESET_I2C0_BITS)
Reset_I2C0_Deassert ==
    /\ pc = "reset_clear"
    /\ ResetCtrl_Regs' = [ResetCtrl_Regs EXCEPT !.reset = 0]
    /\ regLog' = Append(regLog, ResetWrite("clear"))
    /\ pc' = "reset_poll"
    /\ UNCHANGED <<func, xferVars, initVars, devVars>>

\* one evaluation of the while condition: tight_loop_contents() or the return
Reset_I2C0_Poll ==
    /\ pc = "reset_poll"
    /\ IF ResetPending(ResetCtrl_Regs)
       THEN UNCHANGED <<pc, retSite>>
       ELSE /\ pc' = "reset_returned"
            /\ retSite' = 26
    /\ UNCHANGED <<func, regAddr, regVal, errorCount, reg_value, retval, busLog,
                   initVars, hwVars, devVars>>

\* the hardware: some time after the reset bit is cleared the block is out of reset
HW_ResetDone ==
    /\ ResetCtrl_Regs.reset = 0
    /\ ResetCtrl_Regs.reset_done = 0
    /\ ResetCtrl_Regs' = [ResetCtrl_Regs EXCEPT !.reset_done = 1]
    /\ UNCHANGED <<pc, func, xferVars, initVars, regLog, devVars>>

(* ---- DS1307.c: I2C_Register_Read and Enable_DS1307_Oscillator ---- *)

\* static const int DS1307_I2C_Address = 0x68
DS1307_I2C_Address == 104

\* maxRetries and retryDelayUs of I2C_Register_Read in DS1307.c
DS_maxRetries == 5

DS_retryDelayUs == 5

\* maxRetries and retryDelayUs of Enable_DS1307_Oscillator
Osc_maxRetries == 5

Osc_retryDelayUs == 5

\* the register address main passes to I2C_Register_Read
MainReadAddrs == {1}

\* the loop conditions !i2c_write_blocking(...) / !i2c_read_blocking(...) of DS1307.c
DS_TransferFailed(ret) == ret = 0

\* variant: if(errorCount >= maxRetries)
DS_RetriesExhaustedEarly(ec) == ec >= DS_maxRetries

\* if(errorCount > maxRetries) of I2C_Register_Read in DS1307.c
DS_RetriesExhausted(ec) == ec > DS_maxRetries

\* errorCount = 0 between the two phases
DS_ResetErrorCount(ec) == 0

\* i2c_write_blocking(i2c_default, DS1307_I2C_Address, &reg_address, 1, true)
DS_ReadAddressTransmit(address, ret) ==
    [op |-> "tx", dev |-> DS1307_I2C_Address, data |-> <<address>>, nostop |-> TRUE, ret |-> ret]

\* i2c_read_blocking(i2c_default, DS1307_I2C_Address, &reg_value, 1, false)
DS_ReadValueReceive(ret, bytes) ==
    [op |-> "rx", dev |-> DS1307_I2C_Address, len |-> 1, nostop |-> FALSE, ret |-> ret, data |-> bytes]

\* sleep_us(retryDelayUs) of I2C_Register_Read in DS1307.c
DS_Sleep == [op |-> "sleep", us |-> DS_retryDelayUs]

\* variant: a failed read of register 0x07 ends Enable_DS1307_Oscillator
AfterReadAbortOnFail(f, value) ==
    IF f = "Enable_DS1307_Oscillator" /\ value # MPU6050_REGISTER_I2C_READ_FAIL
    THEN "osc_tx" ELSE "done"

\* where control goes when I2C_Register_Read of DS1307.c returns value:
\* Enable_DS1307_Oscillator only prints it and goes on to its write loop
AfterRead(f, value) == IF f = "Enable_DS1307_Oscillator" THEN "osc_tx" ELSE "done"

\* uint8_t outputData_Reset[] = {0x07, 0x00}
Osc_outputData_Reset == <<7, 0>>

\* i2c_write_blocking(i2c_default, DS1307_I2C_Address, outputData_Reset, 2, false)
Osc_Transmit(ret) ==
    [op |-> "tx", dev |-> DS1307_I2C_Address, data |-> Osc_outputData_Reset, nostop |-> FALSE, ret |-> ret]

\* if(errorCount > maxRetries) of Enable_DS1307_Oscillator
Osc_RetriesExhausted(ec) == ec > Osc_maxRetries

\* sleep_us(retryDelayUs) of Enable_DS1307_Oscillator
Osc_Sleep == [op |-> "sleep", us |-> Osc_retryDelayUs]

\* main: I2C_Register_Read(0x01), or any other register
Call_DS1307_I2C_Register_Read ==
    /\ pc = "idle"
    /\ func' = "DS1307_I2C_Register_Read"
    /\ \E a \in RegAddrs \cup MainReadAddrs : regAddr' = a
    /\ pc' = "ds_read_tx"
    /\ errorCount' = 0
    /\ reg_value' = NoValue
    /\ retval' = NoValue
    /\ retSite' = 0
    /\ busLog' = <<>>
    /\ UNCHANGED <<regVal, initVars, hwVars, devVars>>

\* Enable_DS1307_Oscillator up to its call I2C_Register_Read(0x07)
Call_Enable_DS1307_Oscillator ==
    /\ pc = "idle"
    /\ func' = "Enable_DS1307_Oscillator"
    /\ osc_errorCount' = 0
    /\ regAddr' = 7
    /\ pc' = "ds_read_tx"
    /\ errorCount' = 0
    /\ reg_value' = NoValue
    /\ retval' = NoValue
    /\ retSite' = 0
    /\ busLog' = <<>>
    /\ UNCHANGED <<regVal, initVars, hwVars, printedReg, timeDate, regWriteLog,
                   bcdOriginal, bcdPacked, bcdDecoded>>

\* I2C_Register_Read of DS1307.c returns value from the statement at line site
DS1307_I2C_Register_Read_Return(value, site) ==
    /\ pc' = AfterRead(func, value)
    /\ retSite' = site
    /\ IF AfterRead(func, value) = "done"
       THEN retval' = value /\ UNCHANGED printedReg
       ELSE printedReg' = value /\ UNCHANGED retval

\* one evaluation of the first while condition, and the loop body when it fails
DS1307_I2C_Register_Read_Transmit ==
    /\ pc = "ds_read_tx"
    /\ \E ret \in {0, 1} :
         IF DS_TransferFailed(ret)
         THEN /\ busLog' = busLog \o <<DS_ReadAddressTransmit(regAddr, ret), DS_Sleep>>
              /\ errorCount' = errorCount + 1
              /\ IF DS_RetriesExhausted(errorCount + 1)
                 THEN DS1307_I2C_Register_Read_Return(MPU6050_REGISTER_I2C_READ_FAIL, 161)
                 ELSE /\ UNCHANGED <<retval, retSite, printedReg>>
                      /\ pc' = "ds_read_tx"
         ELSE /\ busLog' = Append(busLog, DS_ReadAddressTransmit(regAddr, ret))
              /\ errorCount' = DS_ResetErrorCount(errorCount)
              /\ pc' = "ds_read_rx"
              /\ UNCHANGED <<retval, retSite, printedReg>>
    /\ UNCHANGED <<func, regAddr, regVal, reg_value, initVars, hwVars, timeDate,
                   regWriteLog, osc_errorCount, bcdOriginal, bcdPacked, bcdDecoded>>

\* one evaluation of the second while condition, and the loop body when it fails
DS1307_I2C_Register_Read_Receive ==
    /\ pc = "ds_read_rx"
    /\ \/ \E ret \in {0} :
            /\ DS_TransferFailed(ret)
            /\ busLog' = busLog \o <<DS_ReadValueReceive(ret, <<>>), DS_Sleep>>
            /\ errorCount' = errorCount + 1
            /\ IF DS_RetriesExhausted(errorCount + 1)
               THEN DS1307_I2C_Register_Read_Return(MPU6050_REGISTER_I2C_READ_FAIL, 175)
               ELSE /\ UNCHANGED <<retval, retSite, printedReg>>
                    /\ pc' = "ds_read_rx"
            /\ UNCHANGED reg_value
       \/ \E ret \in {1}, b \in DeviceBytes :
            /\ ~DS_TransferFailed(ret)
            /\ busLog' = Append(busLog, DS_ReadValueReceive(ret, <<b>>))
            /\ reg_value' = b
            /\ DS1307_I2C_Register_Read_Return(b, 179)
            /\ UNCHANGED errorCount
    /\ UNCHANGED <<func, regAddr, regVal, initVars, hwVars, timeDate,
                   regWriteLog, osc_errorCount, bcdOriginal, bcdPacked, bcdDecoded>>

\* one evaluation of the while condition of Enable_DS1307_Oscillator, and the
\* loop body when it fails
Enable_DS1307_Oscillator_Transmit ==
    /\ pc = "osc_tx"
    /\ \E ret \in {0, 2} :
         IF DS_TransferFailed(ret)
         THEN /\ busLog' = busLog \o <<Osc_Transmit(ret), Osc_Sleep>>
              /\ osc_errorCount' = osc_errorCount + 1
              /\ IF Osc_RetriesExhausted(osc_errorCount + 1)
                 THEN /\ retval' = MPU6050_REGISTER_I2C_READ_FAIL
                      /\ retSite' = 201
                      /\ pc' = "done"
                 ELSE /\ UNCHANGED <<retval, retSite>>
                      /\ pc' = "osc_tx"
         ELSE /\ busLog' = Append(busLog, Osc_Transmit(ret))
              /\ osc_errorCount' = 0
              /\ retval' = STATUS_SUCCESS
              /\ retSite' = 208
              /\ pc' = "done"
    /\ UNCHANGED <<func, regAddr, regVal, errorCount, reg_value, initVars, hwVars,
                   printedReg, timeDate, regWriteLog, bcdOriginal, bcdPacked, bcdDecoded>>

(* ---- BCD codec: ConvertBCD (declared in DS1307.h, no definition in the sources) ---- *)

BCD_TO_DEC == 0

DEC_TO_BCD == 1

LOWER_NIBBLE_MASK == 15

INCORRECT_REQUEST == 255

\* the values a uint8_t argument can take
BcdInputs == 0 .. 255

\* variant: the tens digit is shifted by three bits instead of four
toBCDShortShift(value) == (((value \div 10) * 8) % 256) + (value % 10)

\* toBCD: tens = value / 10, ones = value % 10, packed as (tens << 4) | ones in
\* eight bits; the low nibble of tens << 4 is clear and ones <= 9, so the OR is a sum
toBCD(value) == (((value \div 10) * 16) % 256) + (value % 10)

\* fromBCD: tens = packed >> 4, ones = packed & 0x0F, result tens * 10 + ones
fromBCD(packed) == (packed \div 16) * 10 + (packed % (LOWER_NIBBLE_MASK + 1))

\* uint8_t ConvertBCD(uint16_t valueToConvert, bool direction)
ConvertBCD(valueToConvert, direction) ==
    IF direction = DEC_TO_BCD THEN toBCD(valueToConvert)
    ELSE IF direction = BCD_TO_DEC THEN fromBCD(valueToConvert)
    ELSE INCORRECT_REQUEST

\* a caller converts a decimal value to packed BCD
Call_ConvertBCD_DecToBcd ==
    /\ pc = "idle"
    /\ func' = "ConvertBCD"
    /\ \E v \in BcdInputs :
         /\ bcdOriginal' = v
         /\ bcdPacked' = ConvertBCD(v, DEC_TO_BCD)
    /\ pc' = "bcd_packed"
    /\ UNCHANGED <<xferVars, initVars, hwVars, printedReg, timeDate,
                   regWriteLog, osc_errorCount, bcdDecoded>>

\* the caller converts the packed value back
Call_ConvertBCD_BcdToDec ==
    /\ pc = "bcd_packed"
    /\ bcdDecoded' = ConvertBCD(bcdPacked, BCD_TO_DEC)
    /\ pc' = "bcd_done"
    /\ UNCHANGED <<func, xferVars, initVars, hwVars, printedReg, timeDate,
                   regWriteLog, osc_errorCount, bcdOriginal, bcdPacked>>

(* ---- programDateTime (SetCurrentDate is declared in DS1307.h, no definition in the sources) ---- *)

\* TimeDate: <<seconds, minutes, hours, dayOfWeek, day, month, yearOfCentury>>
TimeDates ==
    { <<45, 30, 14, 1, 23, 11, 24>>,
      <<0, 0, 0, 1, 1, 1, 0>>,
      <<59, 59, 23, 7, 31, 12, 99>>,
      <<9, 10, 19, 3, 28, 2, 70>> }

NumTimeFields == 7

ValidTimeDate(t) ==
    /\ Len(t) = NumTimeFields
    /\ t[1] \in 0 .. 59 /\ t[2] \in 0 .. 59 /\ t[3] \in 0 .. 23 /\ t[4] \in 1 .. 7
    /\ t[5] \in 1 .. 31 /\ t[6] \in 1 .. 12 /\ t[7] \in 0 .. 99

\* variant: the register addresses descend, yearOfCentury goes to 0x00
TimeRegisterDescending(field) == NumTimeFields - field

\* the register address of field number field: seconds -> 0x00 ... yearOfCentury -> 0x06
TimeRegister(field) == field - 1

\* a single-register write the sequence asked for
RequestedWrite(address, value) == [op |-> "write", addr |-> address, value |-> value]

\* the fixed settling delay between two writes
SettleDelay == [op |-> "settle"]

\* programDateTime(t) up to its first register write
Call_programDateTime ==
    /\ pc = "idle"
    /\ func' = "programDateTime"
    /\ \E t \in TimeDates :
         /\ timeDate' = t
         /\ regAddr' = TimeRegister(1)
         /\ regVal' = toBCD(t[1])
         /\ regWriteLog' = <<RequestedWrite(TimeRegister(1), toBCD(t[1]))>>
    /\ pc' = "write_tx"
    /\ errorCount' = 0
    /\ reg_value' = NoValue
    /\ retval' = NoValue
    /\ retSite' = 0
    /\ busLog' = <<>>
    /\ UNCHANGED <<initVars, hwVars, printedReg, osc_errorCount,
                   bcdOriginal, bcdPacked, bcdDecoded>>

\* a register write of programDateTime returned: a failure ends the call at
\* once, the seventh success ends it, otherwise the next field is written
programDateTime_Next ==
    /\ pc = "pdt_ret"
    /\ IF retval # STATUS_SUCCESS \/ Len(SelectSeq(regWriteLog, LAMBDA w : w.op = "write")) = NumTimeFields
       THEN /\ pc' = "done"
            /\ UNCHANGED <<regAddr, regVal, errorCount, retval, retSite, busLog, regWriteLog>>
       ELSE LET field == Len(SelectSeq(regWriteLog, LAMBDA w : w.op = "write")) + 1 IN
            /\ regAddr' = TimeRegister(field)
            /\ regVal' = toBCD(timeDate[field])
            /\ regWriteLog' = regWriteLog \o
                   <<SettleDelay, RequestedWrite(TimeRegister(field), toBCD(timeDate[field]))>>
            /\ errorCount' = 0
            /\ retval' = NoValue
            /\ retSite' = 0
            /\ busLog' = <<>>
            /\ pc' = "write_tx"
    /\ UNCHANGED <<func, reg_value, initVars, hwVars, printedReg, timeDate,
                   osc_errorCount, bcdOriginal, bcdPacked, bcdDecoded>>

(* ---- the caller ---- *)

\* the call is over: its arguments, locals and result are gone, the registers stay
Return ==
    /\ pc \in {"done", "init_done", "reset_returned", "bcd_done"}
    /\ pc' = "idle"
    /\ func' = "none"
    /\ regAddr' = 0
    /\ regVal' = 0
    /\ errorCount' = 0
    /\ reg_value' = NoValue
    /\ retval' = NoValue
    /\ retSite' = 0
    /\ busLog' = <<>>
    /\ baudrate' = Zero32
    /\ clockFreq' = Zero32
    /\ period_SCL' = Zero32
    /\ lcnt' = Zero32
    /\ hcnt' = Zero32
    /\ regLog' = <<>>
    /\ printedReg' = NoValue
    /\ timeDate' = NoTimeDate
    /\ regWriteLog' = <<>>
    /\ osc_errorCount' = 0
    /\ bcdOriginal' = NoValue
    /\ bcdPacked' = NoValue
    /\ bcdDecoded' = NoValue
    /\ UNCHANGED <<I2C0_Regs, ResetCtrl_Regs>>

Next ==
    \/ Call_I2C_Register_Read
    \/ I2C_Register_Read_Transmit
    \/ I2C_Register_Read_Receive
    \/ Call_I2C_Register_Write
    \/ I2C_Register_Write_Transmit
    \/ Call_I2C_Initialize
    \/ I2C_Initialize_Disable
    \/ I2C_Initialize_Con
    \/ I2C_Initialize_Timing
    \/ I2C_Initialize_Hcnt
    \/ I2C_Initialize_Lcnt
    \/ I2C_Initialize_Spklen
    \/ I2C_Initialize_Enable
    \/ Call_Reset_I2C0
    \/ Reset_I2C0_Assert
    \/ Reset_I2C0_Deassert
    \/ Reset_I2C0_Poll
    \/ HW_ResetDone
    \/ Call_DS1307_I2C_Register_Read
    \/ DS1307_I2C_Register_Read_Transmit
    \/ DS1307_I2C_Register_Read_Receive
    \/ Call_Enable_DS1307_Oscillator
    \/ Enable_DS1307_Oscillator_Transmit
    \/ Call_ConvertBCD_DecToBcd
    \/ Call_ConvertBCD_BcdToDec
    \/ Call_programDateTime
    \/ programDateTime_Next
    \/ Return

Spec == Init /\ [][Next]_vars

\* the thread of control keeps running while it is inside a register routine or
\* the reset wait, and the hardware completes a reset that was released
FairSpec ==
    /\ Spec
    /\ WF_vars(I2C_Register_Read_Transmit)
    /\ WF_vars(I2C_Register_Read_Receive)
    /\ WF_vars(I2C_Register_Write_Transmit)
    /\ WF_vars(DS1307_I2C_Register_Read_Transmit)
    /\ WF_vars(DS1307_I2C_Register_Read_Receive)
    /\ WF_vars(Enable_DS1307_Oscillator_Transmit)
    /\ WF_vars(programDateTime_Next)
    /\ WF_vars(Reset_I2C0_Poll)
    /\ WF_vars(HW_ResetDone)

----------------------------------------------------------------------------
(* what the bus saw during the running call *)

TxEvents == SelectSeq(busLog, LAMBDA e : e.op = "tx")

RxEvents == SelectSeq(busLog, LAMBDA e : e.op = "rx")

\* the transceiver acknowledged the transfer: it reports the bytes it moved
Acked(e) == e.ret # 0

\* no transfer of the running call was acknowledged
NeverAcked == \A i \in 1 .. Len(busLog) : busLog[i].op \in {"tx", "rx"} => ~Acked(busLog[i])

\* an acknowledged attempt is the last attempt of its phase
AckEndsPhase(attempts) == \A i \in 1 .. Len(attempts) : Acked(attempts[i]) => i = Len(attempts)

\* the phase made attempts and its last one was acknowledged
PhaseAcked(attempts) == Len(attempts) >= 1 /\ Acked(attempts[Len(attempts)])

Returned == pc = "done"

ReadFailed == retSite \in {123, 136}

\* the running call is one of the two register routines of I2C_Driver.c
DriverRoutine == func \in {"I2C_Register_Read", "I2C_Register_Write"}

----------------------------------------------------------------------------
(* C1: when the transceiver never acknowledges, I2C_Register_Write returns   *)
(* its failure value after exactly 6 transmit attempts, and                  *)
(* I2C_Register_Read returns its failure value after exactly 6 transmit      *)
(* attempts of the address and no receive attempt.                           *)
C1_NeverAckedFailsAfterSix ==
    (DriverRoutine /\ Returned /\ NeverAcked) =>
        /\ Len(TxEvents) = 6
        /\ Len(RxEvents) = 0
        /\ retval = MPU6050_REGISTER_I2C_READ_FAIL
        /\ func = "I2C_Register_Read" => retSite = 123
        /\ func = "I2C_Register_Write" => retSite = 159

C1_Witness ==
    /\ Returned /\ NeverAcked
    /\ func = "I2C_Register_Read"
    /\ Len(TxEvents) = 6
    /\ retval = MPU6050_REGISTER_I2C_READ_FAIL

(* C2: a phase that is acknowledged on attempt k (1 <= k <= 6) after k-1     *)
(* unacknowledged attempts ends there, with exactly k attempts and without   *)
(* failing, and the call returns success when each of its phases did so.     *)
C2_AckOnAttemptKCompletes ==
    /\ DriverRoutine => AckEndsPhase(TxEvents) /\ AckEndsPhase(RxEvents)
    /\ DriverRoutine => Len(TxEvents) <= 6 /\ Len(RxEvents) <= 6
    /\ (func = "I2C_Register_Read" /\ PhaseAcked(TxEvents)) =>
            /\ pc \in {"read_rx", "done"}
            /\ retSite # 123
    /\ (func = "I2C_Register_Read" /\ PhaseAcked(TxEvents) /\ PhaseAcked(RxEvents)) =>
            /\ Returned
            /\ retSite = 139
    /\ (func = "I2C_Register_Write" /\ PhaseAcked(TxEvents)) =>
            /\ Returned
            /\ retSite = 163
            /\ retval = STATUS_SUCCESS

C2_Witness ==
    /\ Returned
    /\ func = "I2C_Register_Read"
    /\ Len(TxEvents) = 4 /\ PhaseAcked(TxEvents)
    /\ Len(RxEvents) = 6 /\ PhaseAcked(RxEvents)
    /\ retSite = 139

(* C3: the two phases of I2C_Register_Read have separate retry budgets: in   *)
(* the receive phase errorCount counts the failed receives only, and the     *)
(* call fails in the receive phase only after 6 unacknowledged receives,     *)
(* however many transmits (1 to 6) the address phase took.                   *)
C3_IndependentRetryBudgets ==
    func = "I2C_Register_Read" =>
        /\ pc = "read_rx" => errorCount = Len(RxEvents)
        /\ retSite = 136 <=>
              (Len(RxEvents) = 6 /\ \A i \in 1 .. 6 : ~Acked(RxEvents[i]))

C3_Witness ==
    /\ func = "I2C_Register_Read"
    /\ Returned
    /\ retSite = 136
    /\ Len(TxEvents) = 6
    /\ Len(RxEvents) = 6

(* C4: a run of I2C_Register_Read is transmits of the one byte               *)
(* registerAddress with the bus held, then (only after an acknowledged       *)
(* transmit) receives of one byte with a stop; no receive comes before an    *)
(* acknowledged transmit, no transmit after a receive, and on success the    *)
(* value returned is the byte of the acknowledged receive.                   *)
C4_ReadFraming ==
    func = "I2C_Register_Read" =>
        /\ \A i \in 1 .. Len(busLog) :
              /\ busLog[i].op = "tx" =>
                    /\ busLog[i].data = <<regAddr>>
                    /\ busLog[i].nostop = TRUE
                    /\ \A j \in 1 .. i : busLog[j].op # "rx"
              /\ busLog[i].op = "rx" =>
                    /\ busLog[i].len = 1
                    /\ busLog[i].nostop = FALSE
                    /\ \E j \in 1 .. i - 1 : busLog[j].op = "tx" /\ Acked(busLog[j])
        /\ retSite = 139 =>
              /\ PhaseAcked(RxEvents)
              /\ retval = RxEvents[Len(RxEvents)].data[1]

C4_Witness ==
    /\ func = "I2C_Register_Read"
    /\ retSite = 139
    /\ Len(TxEvents) = 3
    /\ Len(RxEvents) = 2
    /\ regAddr = 7
    /\ retval = 69

(* C5: every attempt of I2C_Register_Write transmits the two bytes           *)
(* {registerAddress, registerValue} with a stop to device 0x68; there is no  *)
(* receive; at most 6 attempts are made and the call returns success if and  *)
(* only if one of them was acknowledged.                                     *)
C5_WriteFraming ==
    func = "I2C_Register_Write" =>
        /\ \A i \in 1 .. Len(busLog) :
              busLog[i].op = "tx" =>
                    /\ busLog[i].dev = 104
                    /\ busLog[i].data = <<regAddr, regVal>>
                    /\ busLog[i].nostop = FALSE
        /\ Len(RxEvents) = 0
        /\ Len(TxEvents) <= 6
        /\ Returned =>
              (retval = STATUS_SUCCESS <=> \E i \in 1 .. Len(TxEvents) : Acked(TxEvents[i]))

C5_Witness ==
    /\ func = "I2C_Register_Write"
    /\ Returned
    /\ regAddr = 7 /\ regVal = 2
    /\ Len(TxEvents) = 6
    /\ retval = STATUS_SUCCESS

(* C6: the result of I2C_Register_Read tells a failed transaction from a     *)
(* successful read of any byte: the failure value is returned if and only    *)
(* if one of the two phases ran out of retries.                              *)
C6_ReadFailureDistinguishable ==
    (func = "I2C_Register_Read" /\ Returned) =>
        (retval = MPU6050_REGISTER_I2C_READ_FAIL <=> ReadFailed)

----------------------------------------------------------------------------
(* the timing I2C_Initialize has programmed *)

Initialized == pc = "init_done"

TimingComputed == pc \in {"init_hcnt", "init_lcnt", "init_spklen", "init_enable", "init_done"}

\* low count >= spike length + 7 and high count >= spike length + 5
SpikeMargins ==
    /\ Le32(Add32(I2C0_Regs.fs_spklen, FromNat(7)), I2C0_Regs.fs_scl_lcnt)
    /\ Le32(Add32(I2C0_Regs.fs_spklen, FromNat(5)), I2C0_Regs.fs_scl_hcnt)

\* clk / baud rounded to the nearest integer, ties up: the quotient, plus one
\* when the remainder is at least half the divisor
RoundedQuotient(clk, baud) ==
    IF Le32(Sub32(baud, Div32(baud, FromNat(2))), Mod32(clk, baud))
    THEN Add32(Div32(clk, baud), FromNat(1))
    ELSE Div32(clk, baud)

\* 50 ns in cycles of a clock of clk Hz, rounded up: ceil(clk / 20 000 000)
SpikeCycles50ns(clk) ==
    IF Mod32(clk, FromNat(20000000)) = Zero32
    THEN Div32(clk, FromNat(20000000))
    ELSE Add32(Div32(clk, FromNat(20000000)), FromNat(1))

(* C7: at clk_sys = 125 MHz and a baud rate of 400 kHz the programmed low    *)
(* count is greater than the high count, the low count is at least the       *)
(* spike length + 7 and the high count at least the spike length + 5.        *)
C7_FastModeTimingAt125MHz ==
    (Initialized /\ clockFreq = FromNat(125000000) /\ baudrate = FromNat(400000)) =>
        /\ Lt32(I2C0_Regs.fs_scl_hcnt, I2C0_Regs.fs_scl_lcnt)
        /\ SpikeMargins

C7_Witness ==
    /\ Initialized
    /\ clockFreq = FromNat(125000000) /\ baudrate = FromNat(400000)
    /\ period_SCL = FromNat(313)
    /\ I2C0_Regs.fs_scl_lcnt = FromNat(187)
    /\ I2C0_Regs.fs_scl_hcnt = FromNat(126)

(* C8: for every 32-bit clockFreq and every 32-bit baudrate > 0, period_SCL  *)
(* is clockFreq / baudrate rounded to the nearest integer (ties up), also    *)
(* when clockFreq + baudrate/2 does not fit in 32 bits.                      *)
C8_PeriodRoundsToNearest ==
    TimingComputed => period_SCL = RoundedQuotient(clockFreq, baudrate)

(* C9: the programmed spike length is 50 ns converted to cycles of the       *)
(* system clock and rounded up, for every system clock frequency.            *)
C9_SpikeLengthFromClock ==
    Initialized => I2C0_Regs.fs_spklen = SpikeCycles50ns(clockFreq)

(* C10: every timing I2C_Initialize programs has low count + high count =    *)
(* period_SCL, low count >= spike length + 7 and high count >= spike         *)
(* length + 5, for every clockFreq and baudrate > 0.                         *)
C10_TimingInvariantAlways ==
    Initialized =>
        /\ Add32(I2C0_Regs.fs_scl_lcnt, I2C0_Regs.fs_scl_hcnt) = period_SCL
        /\ SpikeMargins

(* C10 as amended: low count + high count = period_SCL always; the two       *)
(* margins hold whenever 38 <= period_SCL <= 1431655765 (0x55555555).        *)
C10_TimingInvariantInRange ==
    Initialized =>
        /\ Add32(I2C0_Regs.fs_scl_lcnt, I2C0_Regs.fs_scl_hcnt) = period_SCL
        /\ (Le32(FromNat(38), period_SCL) /\ Le32(period_SCL, <<21845, 21845>>)) => SpikeMargins

C10_Witness ==
    /\ Initialized
    /\ period_SCL = FromNat(38)
    /\ I2C0_Regs.fs_scl_lcnt = FromNat(22)
    /\ I2C0_Regs.fs_scl_hcnt = FromNat(16)
    /\ I2C0_Regs.fs_spklen = FromNat(11)

----------------------------------------------------------------------------
(* C11: I2C_Initialize disables the controller before it writes any          *)
(* configuration register and keeps it disabled: con, fs_scl_hcnt,           *)
(* fs_scl_lcnt and fs_spklen are written while enable = 0, and the last      *)
(* register write of the call sets enable = 1.                               *)
ConfigRegs == {"con", "fs_scl_hcnt", "fs_scl_lcnt", "fs_spklen"}

C11_ConfiguredWhileDisabled ==
    func = "I2C_Initialize" =>
        /\ Len(regLog) >= 1 => regLog[1].reg = "enable"
        /\ \A i \in 1 .. Len(regLog) :
              regLog[i].reg \in ConfigRegs => (i > 1 /\ regLog[i].en = 0)
        /\ Len(regLog) \in 1 .. 5 => I2C0_Regs.enable = 0
        /\ Initialized =>
              /\ ConfigRegs \subseteq {regLog[i].reg : i \in 1 .. Len(regLog)}
              /\ regLog[Len(regLog)].reg = "enable"
              /\ I2C0_Regs.enable = 1

C11_Witness ==
    /\ Initialized
    /\ Len(regLog) = 6
    /\ regLog[1] = RegWrite("enable", 1)
    /\ regLog[2] = RegWrite("con", 0)
    /\ regLog[6] = RegWrite("enable", 0)
    /\ I2C0_Regs.enable = 1

(* C12: Reset_I2C0 sets the reset bit, clears it and then polls without a    *)
(* time limit: it returns only when reset_done is set, it does not leave     *)
(* the loop while reset_done is clear, and it returns once the hardware      *)
(* sets reset_done.                                                          *)
C12_ResetWaitsForHardware ==
    /\ [](pc = "reset_returned" =>
            /\ ResetCtrl_Regs.reset_done = 1
            /\ ResetCtrl_Regs.reset = 0
            /\ regLog = <<ResetWrite("set"), ResetWrite("clear")>>)
    /\ [][(pc = "reset_poll" /\ ResetCtrl_Regs.reset_done = 0) => pc' = "reset_poll"]_vars
    /\ (pc = "reset_poll" ~> pc = "reset_returned")

C12_Witness ==
    /\ pc = "reset_returned"
    /\ ResetCtrl_Regs.reset_done = 1
    /\ regLog = <<ResetWrite("set"), ResetWrite("clear")>>

(* ---- C13 ---- *)

\* the register writes of the running call: the two-byte transmits <<register, value>>
RegisterWrites == SelectSeq(busLog, LAMBDA e : e.op = "tx" /\ Len(e.data) = 2)

\* C13: Enable_DS1307_Oscillator issues its register write to register address
\* 0x00 with value 0x00, the two bytes {0x00, 0x00}, and writes to no other
\* register.
C13_OscillatorWritesRegisterZero ==
    func = "Enable_DS1307_Oscillator" =>
        /\ \A i \in 1 .. Len(RegisterWrites) : RegisterWrites[i].data = <<0, 0>>
        /\ Returned => Len(RegisterWrites) >= 1

(* ---- C14 ---- *)

\* the register writes programDateTime has asked for so far
TimeWrites == SelectSeq(regWriteLog, LAMBDA w : w.op = "write")

\* packed is the packed BCD form of value: tens in the high nibble, ones in the low
IsBCDOf(packed, value) == packed \div 16 = value \div 10 /\ packed % 16 = value % 10

\* the k-th write goes to address k - 1 and carries the BCD form of the k-th field
TimeWritesInOrder ==
    \A k \in 1 .. Len(TimeWrites) :
        /\ k <= NumTimeFields
        /\ TimeWrites[k].addr = k - 1
        /\ IsBCDOf(TimeWrites[k].value, timeDate[k])

\* every transmit of the register write in progress carries <<address, value>>
\* of the latest requested write
TimeWriteOnBus ==
    \A i \in 1 .. Len(busLog) :
        busLog[i].op = "tx" =>
            busLog[i].data = <<TimeWrites[Len(TimeWrites)].addr, TimeWrites[Len(TimeWrites)].value>>

ExampleTimeDate == <<45, 30, 14, 1, 23, 11, 24>>

ExampleTimeBytes == <<69, 48, 20, 1, 35, 17, 36>>

C15_BCDRoundTrip ==
    (pc = "bcd_done" /\ bcdOriginal \in 0 .. 99) =>
        /\ IsBCDOf(bcdPacked, bcdOriginal)
        /\ bcdPacked \in 0 .. 153
        /\ bcdDecoded = bcdOriginal

C15_Witness ==
    /\ pc = "bcd_done"
    /\ bcdOriginal = 99
    /\ bcdPacked = 153
    /\ bcdDecoded = 99

(* ---- C16 ---- *)

\* a call of one of the two register routines of I2C_Driver.c is in progress
InRegisterRoutine ==
    /\ DriverRoutine
    /\ pc \in {"read_tx", "read_rx", "write_tx"}

\* C16: every I2C_Register_Read and I2C_Register_Write call terminates whatever
\* the transceiver does: a phase makes at most 6 attempts, so a write performs
\* at most 6 bus operations and a read at most 12 (at most 6 transmits and at
\* most 6 receives), after which the call has returned success or failure.
C16_RegisterRoutinesTerminate ==
    /\ [](func = "I2C_Register_Write" =>
             /\ Len(TxEvents) <= 6
             /\ Len(RxEvents) = 0
             /\ Len(TxEvents) = 6 /\ ~PhaseAcked(TxEvents) => Returned)
    /\ [](func = "I2C_Register_Read" =>
             /\ Len(TxEvents) <= 6
             /\ Len(RxEvents) <= 6
             /\ Len(TxEvents) + Len(RxEvents) <= 12
             /\ Len(TxEvents) = 6 /\ ~PhaseAcked(TxEvents) => Returned
             /\ Len(RxEvents) = 6 /\ ~PhaseAcked(RxEvents) => Returned)
    /\ [](func \in {"I2C_Register_Read", "I2C_Register_Write"} /\ Returned =>
             retSite \in {123, 136, 139, 159, 163})
    /\ (InRegisterRoutine ~> (Returned /\ func \in {"I2C_Register_Read", "I2C_Register_Write"}))

C16_Witness ==
    /\ func = "I2C_Register_Read"
    /\ Returned
    /\ Len(TxEvents) = 6
    /\ Len(RxEvents) = 6
    /\ retSite = 136

(* ---- C17 ---- *)

SleepEvents == SelectSeq(busLog, LAMBDA e : e.op = "sleep")

\* the sleeps a phase with the given attempts may make: one between each two
\* consecutive attempts
SleepsBetween(attempts) == IF Len(attempts) = 0 THEN 0 ELSE Len(attempts) - 1

\* C17: the 5-microsecond backoff occurs only between consecutive attempts of
\* a phase: a phase that makes n attempts performs exactly n - 1 sleeps, and
\* no sleep happens after the final attempt of a phase, in particular not
\* after the 6th failed attempt before the failure is returned.
C17_SleepOnlyBetweenAttempts ==
    (func \in {"I2C_Register_Read", "I2C_Register_Write"} /\ Returned) =>
        /\ Len(SleepEvents) = SleepsBetween(TxEvents) + SleepsBetween(RxEvents)
        /\ busLog[Len(busLog)].op # "sleep"

(* ---- C18 ---- *)

\* "min LOW period of SCL clock for Fast-mode: 0.6us (600ns)"
MinLowPeriodNs == 600

\* "min HIGH period of SCL clock for Fast-mode: 1.3us (1300ns)"
MinHighPeriodNs == 1300

\* the length of one clk_sys cycle in nanoseconds, for a frequency that divides 10^9
NsPerCycle(hz) == 1000000000 \div hz

\* C18: at a 125 MHz system clock (8 ns per cycle) and a 400 kHz target, the
\* counts I2C_Initialize programs meet the fast-mode minimum SCL periods
\* documented in the code: low count * 8 ns >= 600 ns and high count * 8 ns
\* >= 1300 ns.
C18_DocumentedMinimumPeriods ==
    (Initialized /\ clockFreq = FromNat(125000000) /\ baudrate = FromNat(400000)) =>
        /\ ToNat(I2C0_Regs.fs_scl_lcnt) * NsPerCycle(125000000) >= MinLowPeriodNs
        /\ ToNat(I2C0_Regs.fs_scl_hcnt) * NsPerCycle(125000000) >= MinHighPeriodNs

(* ---- C19 ---- *)

\* what the transceiver answered to each bus operation of the running call
Responses ==
    LET ops == SelectSeq(busLog, LAMBDA e : e.op \in {"tx", "rx"}) IN
    [i \in 1 .. Len(ops) |->
        [ret |-> ops[i].ret, bytes |-> IF ops[i].op = "rx" THEN ops[i].data ELSE <<>>]]

RECURSIVE I2C_Register_Read_Run(_, _, _, _, _)
\* I2C_Register_Read of I2C_Driver.c as a function of the transceiver's
\* responses resp: the bus operations it performs and the value it returns,
\* from the loop of the given phase with the given errorCount
I2C_Register_Read_Run(address, phase, ec, resp, log) ==
    IF resp = <<>>
    THEN [log |-> log, ret |-> NoValue, returned |-> FALSE]
    ELSE LET r == Head(resp) IN
         IF phase = "tx"
         THEN IF TransferFailed(r.ret)
              THEN IF RetriesExhausted(ec + 1)
                   THEN [log |-> log \o <<ReadAddressTransmit(address, r.ret), Sleep>>,
                         ret |-> MPU6050_REGISTER_I2C_READ_FAIL, returned |-> TRUE]
                   ELSE I2C_Register_Read_Run(address, "tx", ec + 1, Tail(resp),
                            log \o <<ReadAddressTransmit(address, r.ret), Sleep>>)
              ELSE I2C_Register_Read_Run(address, "rx", ResetErrorCount(ec), Tail(resp),
                       Append(log, ReadAddressTransmit(address, r.ret)))
         ELSE IF TransferFailed(r.ret)
              THEN IF RetriesExhausted(ec + 1)
                   THEN [log |-> log \o <<ReadValueReceive(r.ret, <<>>), Sleep>>,
                         ret |-> MPU6050_REGISTER_I2C_READ_FAIL, returned |-> TRUE]
                   ELSE I2C_Register_Read_Run(address, "rx", ec + 1, Tail(resp),
                            log \o <<ReadValueReceive(r.ret, <<>>), Sleep>>)
              ELSE [log |-> Append(log, ReadValueReceive(r.ret, r.bytes)),
                    ret |-> ReadResult(r.bytes[1]), returned |-> TRUE]

\* what the running call has done and returned so far
Observed == [log |-> busLog, ret |-> retval, returned |-> Returned]

\* the one-byte transmits: the register address sent by a register read
AddressTransmits == SelectSeq(busLog, LAMBDA e : e.op = "tx" /\ Len(e.data) = 1)

\* the phase used up its retries: six attempts, none acknowledged
PhaseExhausted(attempts) ==
    /\ Len(attempts) = 6
    /\ \A i \in 1 .. Len(attempts) : ~Acked(attempts[i])

\* at most six attempts, and an acknowledged attempt is the last one
WithinRetryPolicy(attempts) == Len(attempts) <= 6 /\ AckEndsPhase(attempts)

\* every attempt that was not acknowledged is followed by a 5 us sleep, and
\* there is no other sleep
FiveMicrosecondsPerRetry ==
    /\ \A i \in 1 .. Len(busLog) :
          busLog[i].op = "sleep" =>
              /\ busLog[i].us = 5
              /\ i > 1 /\ busLog[i - 1].op \in {"tx", "rx"} /\ ~Acked(busLog[i - 1])
    /\ \A i \in 1 .. Len(busLog) :
          (busLog[i].op \in {"tx", "rx"} /\ ~Acked(busLog[i])) =>
              (i < Len(busLog) /\ busLog[i + 1].op = "sleep")

DuplicatedLoopSites ==
    {"I2C_Register_Read", "DS1307_I2C_Register_Read", "I2C_Register_Write",
     "Enable_DS1307_Oscillator"}

\* C19: the retry policy is the same at every call site that duplicates the
\* loop: the register read of DS1307.c, the register read and the register
\* write of I2C_Driver.c and the write loop of Enable_DS1307_Oscillator all
\* allow exactly 6 attempts per phase with a 5-microsecond delay per retry, and
\* the two register reads produce identical sequences of bus operations and
\* identical return values for every sequence of transceiver responses.
C19_SameRetryPolicyEverywhere ==
    /\ func \in DuplicatedLoopSites =>
          /\ WithinRetryPolicy(AddressTransmits)
          /\ WithinRetryPolicy(RxEvents)
          /\ WithinRetryPolicy(RegisterWrites)
          /\ FiveMicrosecondsPerRetry
    /\ (func = "I2C_Register_Read" /\ Returned) =>
          (retSite \in {123, 136} <=> PhaseExhausted(AddressTransmits) \/ PhaseExhausted(RxEvents))
    /\ (func = "DS1307_I2C_Register_Read" /\ Returned) =>
          (retSite \in {161, 175} <=> PhaseExhausted(AddressTransmits) \/ PhaseExhausted(RxEvents))
    /\ (func = "I2C_Register_Write" /\ Returned) =>
          (retSite = 159 <=> PhaseExhausted(RegisterWrites))
    /\ (func = "Enable_DS1307_Oscillator" /\ Returned) =>
          (retSite = 201 <=> PhaseExhausted(RegisterWrites))
    /\ func \in {"I2C_Register_Read", "DS1307_I2C_Register_Read"} =>
          Observed = I2C_Register_Read_Run(regAddr, "tx", 0, Responses, <<>>)

C19_Witness ==
    /\ func = "DS1307_I2C_Register_Read"
    /\ Returned
    /\ Len(AddressTransmits) = 6
    /\ PhaseExhausted(RxEvents)
    /\ retval = MPU6050_REGISTER_I2C_READ_FAIL
    /\ Observed = I2C_Register_Read_Run(regAddr, "tx", 0, Responses, <<>>)

(* ---- C20 ---- *)

\* the register read made by Enable_DS1307_Oscillator has run to its end
OscReadFinished ==
    \/ PhaseExhausted(AddressTransmits)
    \/ PhaseExhausted(RxEvents)
    \/ PhaseAcked(RxEvents)

OscReadFailed == PhaseExhausted(AddressTransmits) \/ PhaseExhausted(RxEvents)

\* every bus operation of the register read comes before every one of the write
OscReadBeforeWrite ==
    \A i, j \in 1 .. Len(busLog) :
        (/\ busLog[i].op = "tx" /\ Len(busLog[i].data) = 2
         /\ \/ busLog[j].op = "rx"
            \/ busLog[j].op = "tx" /\ Len(busLog[j].data) = 1) => j < i

\* C20: Enable_DS1307_Oscillator first performs a full register read of 0x07
\* and then its write phase; it returns success if and only if the write was
\* acknowledged within 6 attempts, also when the read failed after exhausting
\* its retries, and it makes at most 18 bus operations.
C20_OscillatorResultIsTheWrites ==
    func = "Enable_DS1307_Oscillator" =>
        /\ \A i \in 1 .. Len(AddressTransmits) : AddressTransmits[i].data = <<7>>
        /\ OscReadBeforeWrite
        /\ (Len(RegisterWrites) >= 1 \/ pc = "osc_tx" \/ Returned) => OscReadFinished
        /\ (pc = "osc_tx" \/ Returned) =>
               (OscReadFailed => printedReg = MPU6050_REGISTER_I2C_READ_FAIL)
        /\ Len(TxEvents) + Len(RxEvents) <= 18
        /\ Returned =>
               /\ Len(RegisterWrites) \in 1 .. 6
               /\ retval = STATUS_SUCCESS <=> PhaseAcked(RegisterWrites)
               /\ retval # STATUS_SUCCESS =>
                      /\ retval = MPU6050_REGISTER_I2C_READ_FAIL
                      /\ PhaseExhausted(RegisterWrites)

C20_Witness ==
    /\ func = "Enable_DS1307_Oscillator"
    /\ Returned
    /\ retval = STATUS_SUCCESS
    /\ OscReadFailed
    /\ PhaseExhausted(RxEvents)
    /\ Len(AddressTransmits) = 6
    /\ Len(RegisterWrites) = 6
    /\ Len(TxEvents) + Len(RxEvents) = 18

====
